---- MODULE Spec2Model ----
(***************************************************************************)
(* A model of the Three visualisation class of src/js/three.js: the        *)
(* georeferencing arithmetic of loadMethaneAssets and transform, the       *)
(* constructor, the offscreen texture synthesis, the self-scheduling       *)
(* render loop, the resize handler and the control-panel bindings.  Of a   *)
(* second instance of the class only its loadMethaneAssets call is kept.   *)
(*                                                                         *)
(* JavaScript Numbers are modelled as exact rationals <<n, d>> extended    *)
(* with the IEEE-754 special values: d > 0 is the finite non-zero n/d in   *)
(* lowest terms, <<0, 1>> and <<0, -1>> are +0 and -0, <<1, 0>> and        *)
(* <<-1, 0>> are +Infinity and -Infinity, <<0, 0>> is NaN.  The value      *)
(* undefined is <<2, 0>>.  Rounding of binary floating point is not        *)
(* modelled: every finite result is the exact rational.                    *)
(***************************************************************************)
EXTENDS Integers, Sequences, FiniteSets, TLC

VARIABLES
    image,        \* the decoded image: its fileDirectory tags and pixel extent
    pixelToGPS,   \* the forward coefficients built by loadMethaneAssets
    gpsToPixel,   \* the inverse coefficients built by loadMethaneAssets
    gpc,          \* position of the coordinate-transform exercise
    pixel,        \* the pixel coordinate <<px, py>> handed to transform
    roundToInt,   \* the roundToInt argument handed to transform
    geo,          \* transform(px, py, pixelToGPS, roundToInt)
    back,         \* transform(lon, lat, gpsToPixel, roundToInt)
    window,       \* the host window: innerWidth, innerHeight, devicePixelRatio
    device,       \* the module-level device object
    pc,           \* position of the constructor
    camera,       \* the perspective camera: aspect, and the aspect of its projection
    renderer,     \* the WebGL renderer: size, pixel ratio, bound render target
    orig,         \* generateTexture's saved render target
    layers,       \* this.layers
    scale,        \* this.scaleX, this.scaleY, this.scaleZ
    planeMesh,    \* the base-surface mesh
    methaneMesh,  \* the overlay mesh
    methaneTexture, \* the synthesized overlay texture
    synths,       \* offscreen draws issued by generateTexture
    load,         \* position of the asynchronous loadMethaneAssets
    loadError,    \* what rejected loadMethaneAssets' promise
    peerLoad,     \* position of loadMethaneAssets of a second Three instance
    raf,          \* animation-frame callbacks pending
    frames,       \* draws of the main scene issued
    listening,    \* the resize listener is registered
    inputs,       \* user and window inputs so far
    last          \* the handler that ran last

geoVars == <<gpc, pixel, roundToInt, geo, back>>
dataVars == <<image, pixelToGPS, gpsToPixel>>
viewVars == <<window, device, camera, renderer, orig>>
sceneVars == <<layers, scale, planeMesh, methaneMesh, methaneTexture>>
loopVars == <<raf, frames, listening>>
progVars ==
    <<pc, viewVars, sceneVars, synths, load, loadError, peerLoad, loopVars,
      inputs, last>>
vars == <<geoVars, dataVars, progVars>>

----------------------------------------------------------------------------
(* JavaScript values *)

NaN == <<0, 0>>
PosInf == <<1, 0>>
NegInf == <<-1, 0>>
PosZero == <<0, 1>>
NegZero == <<0, -1>>
undefined == <<2, 0>>

Abs(i) == IF i < 0 THEN -i ELSE i

RECURSIVE GCD(_, _)
GCD(a, b) == IF b = 0 THEN a ELSE GCD(b, a % b)

\* The Number n/d, d > 0, in lowest terms.
Rat(n, d) ==
    IF n = 0 THEN PosZero
    ELSE LET g == GCD(Abs(n), d) IN <<n \div g, d \div g>>

Num(i) == Rat(i, 1)

\* ToNumber: undefined converts to NaN.
ToNumber(x) == IF x = undefined THEN NaN ELSE x

IsNaN(x) == x = NaN
IsInf(x) == x = PosInf \/ x = NegInf
IsZero(x) == x = PosZero \/ x = NegZero
IsFinite(x) == x[2] # 0
Negative(x) == IF x[1] = 0 THEN x[2] < 0 ELSE x[1] < 0
Den(x) == Abs(x[2])
SignedZero(neg) == IF neg THEN NegZero ELSE PosZero
SignedInf(neg) == IF neg THEN NegInf ELSE PosInf

\* Unary minus.
Neg(x0) ==
    LET x == ToNumber(x0)
    IN  IF IsNaN(x) THEN NaN ELSE <<-x[1], IF x[1] = 0 THEN -x[2] ELSE x[2]>>

\* The + operator on Numbers.
Add(x0, y0) ==
    LET x == ToNumber(x0)
        y == ToNumber(y0)
    IN  CASE IsNaN(x) \/ IsNaN(y) -> NaN
          [] IsInf(x) /\ IsInf(y) -> IF x = y THEN x ELSE NaN
          [] IsInf(x) -> x
          [] IsInf(y) -> y
          [] IsZero(x) /\ IsZero(y) -> SignedZero(Negative(x) /\ Negative(y))
          [] OTHER -> Rat(x[1] * Den(y) + y[1] * Den(x), Den(x) * Den(y))

\* The * operator.
Mul(x0, y0) ==
    LET x == ToNumber(x0)
        y == ToNumber(y0)
        neg == Negative(x) # Negative(y)
    IN  CASE IsNaN(x) \/ IsNaN(y) -> NaN
          [] (IsInf(x) /\ IsZero(y)) \/ (IsZero(x) /\ IsInf(y)) -> NaN
          [] IsInf(x) \/ IsInf(y) -> SignedInf(neg)
          [] IsZero(x) \/ IsZero(y) -> SignedZero(neg)
          [] OTHER -> Rat(x[1] * y[1], Den(x) * Den(y))

\* The / operator.
Div(x0, y0) ==
    LET x == ToNumber(x0)
        y == ToNumber(y0)
        neg == Negative(x) # Negative(y)
    IN  CASE IsNaN(x) \/ IsNaN(y) -> NaN
          [] IsInf(x) /\ IsInf(y) -> NaN
          [] IsZero(x) /\ IsZero(y) -> NaN
          [] IsInf(x) -> SignedInf(neg)
          [] IsInf(y) -> SignedZero(neg)
          [] IsZero(y) -> SignedInf(neg)
          [] IsZero(x) -> SignedZero(neg)
          [] OTHER -> Rat((IF neg THEN -1 ELSE 1) * Abs(x[1]) * Den(y),
                          Den(x) * Abs(y[1]))

\* The < operator (false when either side is NaN).
Less(x0, y0) ==
    LET x == ToNumber(x0)
        y == ToNumber(y0)
    IN  CASE IsNaN(x) \/ IsNaN(y) -> FALSE
          [] IsInf(x) \/ IsInf(y) -> x # y /\ (x = NegInf \/ y = PosInf)
          [] OTHER -> x[1] * Den(y) < y[1] * Den(x)

\* The === operator on Numbers: NaN equals nothing, +0 equals -0.
StrictEq(x, y) ==
    /\ ~IsNaN(x)
    /\ ~IsNaN(y)
    /\ \/ x = y
       \/ IsZero(x) /\ IsZero(y)

\* Math.trunc: the integer part, toward zero, keeping the sign of a zero.
MathTrunc(x0) ==
    LET x == ToNumber(x0)
    IN  IF ~IsFinite(x) \/ IsZero(x) THEN x
        ELSE LET q == Abs(x[1]) \div x[2]
             IN  IF q = 0 THEN SignedZero(Negative(x))
                 ELSE Num((IF Negative(x) THEN -1 ELSE 1) * q)

\* Math.min of two Numbers.
MathMin(x0, y0) ==
    LET x == ToNumber(x0)
        y == ToNumber(y0)
    IN  CASE IsNaN(x) \/ IsNaN(y) -> NaN
          [] Less(x, y) -> x
          [] Less(y, x) -> y
          [] OTHER -> IF Negative(x) THEN x ELSE y

\* Array destructuring: element i (1-based) of an array, undefined past its end.
At(arr, i) == IF i <= Len(arr) THEN arr[i] ELSE undefined

----------------------------------------------------------------------------
(* The coordinate transform *)

\* const lerp = (a, b, t) => (1 - t) * a + t * b
lerp(a, b, t) == Add(Mul(Add(Num(1), Neg(t)), a), Mul(t, b))

\* function transform(a, b, M, roundToInt = false)
transform(a, b, M, rnd) ==
    LET round(v) == IF rnd THEN MathTrunc(v) ELSE v
    IN  << round(Add(Add(M[1], Mul(M[2], a)), Mul(M[3], b))),
           round(Add(Add(M[4], Mul(M[5], a)), Mul(M[6], b))) >>

\* BuildPixelToGPS without the flip of the y scale.
BuildPixelToGPS_NoFlip(s, t) ==
    <<At(t, 4), At(s, 1), PosZero, At(t, 5), PosZero, At(s, 2)>>

\* sy = -sy; pixelToGPS = [gx, sx, 0, gy, 0, sy]
BuildPixelToGPS(s, t) ==
    LET sx == At(s, 1)
        sy == Neg(At(s, 2))
        gx == At(t, 4)
        gy == At(t, 5)
    IN  <<gx, sx, PosZero, gy, PosZero, sy>>

\* BuildGpsToPixel with the y offset divided by the unflipped scale.
BuildGpsToPixel_NoFlip(s, t) ==
    LET sx == At(s, 1)
        sy == Neg(At(s, 2))
        gx == At(t, 4)
        gy == At(t, 5)
    IN  <<Div(Neg(gx), sx), Div(Num(1), sx), PosZero,
          Div(Neg(gy), At(s, 2)), PosZero, Div(Num(1), sy)>>

\* sy = -sy; gpsToPixel = [-gx / sx, 1 / sx, 0, -gy / sy, 0, 1 / sy]
BuildGpsToPixel(s, t) ==
    LET sx == At(s, 1)
        sy == Neg(At(s, 2))
        gx == At(t, 4)
        gy == At(t, 5)
    IN  <<Div(Neg(gx), sx), Div(Num(1), sx), PosZero,
          Div(Neg(gy), sy), PosZero, Div(Num(1), sy)>>

NoMatrix == <<>>
NoPoint == <<>>

----------------------------------------------------------------------------
(* Datasets *)

MaxPix == 2

\* A fileDirectory tag: present with its array of Numbers, or absent.
Tag(arr) == [present |-> TRUE, v |-> arr]
AbsentTag == [present |-> FALSE, v |-> <<>>]

Raster(s, t, w, h) ==
    [ModelPixelScale |-> s, ModelTiepoint |-> t, width |-> w, height |-> h]

\* No image decoded yet.
NoRaster == Raster(AbsentTag, AbsentTag, 0, 0)

\* pixelScale=(0.01,0.01,0), tiePoint=(0,0,0,-100,40,0), 1000 x 1000
ExampleRaster ==
    Raster(Tag(<<Rat(1, 100), Rat(1, 100), PosZero>>),
           Tag(<<PosZero, PosZero, PosZero, Num(-100), Num(40), PosZero>>),
           1000, 1000)

GeoScales == {PosZero, Rat(1, 100), Rat(1, 2), Num(3), Num(-2)}
GeoOrigins == {<<Num(-100), Num(40)>>, <<PosZero, PosZero>>,
               <<Rat(7, 2), Num(-3)>>, <<Num(5), Rat(-1, 3)>>}

\* Rasters with well-formed tags, the pixel anchor of the tie point at (0,0)
\* or at (1,1).
GeoRasters ==
    {ExampleRaster} \cup
    { Raster(Tag(<<sx, sy, PosZero>>),
             Tag(<<a, a, PosZero, g[1], g[2], PosZero>>), MaxPix, MaxPix) :
        sx \in GeoScales, sy \in GeoScales, g \in GeoOrigins,
        a \in {PosZero, Num(1)} }

PixelsOf(r) ==
    IF r.width <= MaxPix
    THEN (0 .. r.width) \X (0 .. r.height)
    ELSE {0, r.width} \X {0, r.height}

\* Rasters the application may be served: the example, one with sx = 0, and
\* ones whose georeferencing tags are absent or of the wrong length.
ProgRasters ==
    LET sc == <<Rat(1, 100), Rat(1, 100), PosZero>>
        tp == <<PosZero, PosZero, PosZero, Num(-100), Num(40), PosZero>>
    IN  { ExampleRaster,
          Raster(Tag(<<PosZero, Rat(1, 100), PosZero>>), Tag(tp), MaxPix, MaxPix),
          Raster(AbsentTag, Tag(tp), MaxPix, MaxPix),
          Raster(Tag(sc), AbsentTag, MaxPix, MaxPix),
          Raster(Tag(SubSeq(sc, 1, 2)), Tag(tp), MaxPix, MaxPix),
          Raster(Tag(sc), Tag(SubSeq(tp, 1, 5)), MaxPix, MaxPix) }

----------------------------------------------------------------------------
(* The host window, the control panel and the scene objects *)

MaxFrames == 3
MaxInputs == 2

\* const resolution = 2000
resolution == 2000

Win(w, h, r) == [innerWidth |-> w, innerHeight |-> h, devicePixelRatio |-> r]

Windows ==
    { Win(Num(800), Num(600), Num(1)),
      Win(Num(1200), Num(600), Rat(3, 2)),
      Win(Num(400), Num(800), Num(3)) }

LayerNames == {"earth", "methane", "cow", "someCrop"}
Axes == {"x", "y", "z"}

\* Values typed into a Scale controller.
ScaleInputs == {Rat(1, 100), Num(3), Num(10)}

\* f1.add(this, 'scaleX', 0.1, 5): the controller's range
scaleMin == Rat(1, 10)
scaleMax == Num(5)

\* A ranged number controller stores the value brought into [min, max].
GuiSetValue(v, min, max) ==
    IF Less(v, min) THEN min ELSE IF Less(max, v) THEN max ELSE v

One3 == <<Num(1), Num(1), Num(1)>>
NoMesh == [made |-> FALSE, visible |-> FALSE, scale |-> One3]
\* new T.Mesh(geometry, material), added to the scene
NewMesh == [made |-> TRUE, visible |-> TRUE, scale |-> One3]

NoTexture == <<>>
NoCamera == [aspect |-> undefined, projAspect |-> undefined]
NoRenderer ==
    [width |-> undefined, height |-> undefined, pixelRatio |-> undefined,
     target |-> "canvas"]

\* setup_params: the default scales and layers
DefaultScale == [a \in Axes |-> Num(1)]
DefaultLayers == [n \in LayerNames |-> TRUE]

\* const device = { width: window.innerWidth, ... }
ReadDevice(win) ==
    [width |-> win.innerWidth, height |-> win.innerHeight,
     pixelRatio |-> win.devicePixelRatio]

\* new T.PerspectiveCamera(75, device.width / device.height, ...)
NewCamera(dev) ==
    LET a == Div(dev.width, dev.height) IN [aspect |-> a, projAspect |-> a]

\* new T.WebGLRenderer(...); setSize(device.width, device.height);
\* setPixelRatio(Math.min(device.pixelRatio, 2))
NewRenderer(dev) ==
    [width |-> dev.width, height |-> dev.height,
     pixelRatio |-> MathMin(dev.pixelRatio, Num(2)), target |-> "canvas"]

\* onResize sizing the renderer before it reads the window.
onResize_StaleSize(win, dev, cam, rnd) ==
    LET d == [dev EXCEPT !.width = win.innerWidth, !.height = win.innerHeight]
        a == Div(d.width, d.height)
    IN  [device |-> d,
         camera |-> [cam EXCEPT !.aspect = a, !.projAspect = a],
         renderer |-> [rnd EXCEPT !.width = dev.width, !.height = dev.height,
                                  !.pixelRatio = MathMin(d.pixelRatio, Num(2))]]

\* onResize applying the device pixel ratio as it is.
onResize_NoClamp(win, dev, cam, rnd) ==
    LET d == [dev EXCEPT !.width = win.innerWidth, !.height = win.innerHeight]
        a == Div(d.width, d.height)
    IN  [device |-> d,
         camera |-> [cam EXCEPT !.aspect = a, !.projAspect = a],
         renderer |-> [rnd EXCEPT !.width = d.width, !.height = d.height,
                                  !.pixelRatio = d.pixelRatio]]

\* onResize(): what it leaves in device, camera and renderer
onResize(win, dev, cam, rnd) ==
    LET d == [dev EXCEPT !.width = win.innerWidth, !.height = win.innerHeight]
        a == Div(d.width, d.height)
    IN  [device |-> d,
         camera |-> [cam EXCEPT !.aspect = a, !.projAspect = a],
         renderer |-> [rnd EXCEPT !.width = d.width, !.height = d.height,
                                  !.pixelRatio = MathMin(d.pixelRatio, Num(2))]]

\* render setting the overlay's flag from the earth entry.
render_WrongLayer(pm, mm, ly) ==
    [planeMesh |-> [pm EXCEPT !.visible = ly.earth],
     methaneMesh |-> [mm EXCEPT !.visible = ly.earth],
     drawn |-> 1,
     scheduled |-> 1]

\* render requesting two animation frames.
render_SchedulesTwice(pm, mm, ly) ==
    [planeMesh |-> [pm EXCEPT !.visible = ly.earth],
     methaneMesh |-> [mm EXCEPT !.visible = ly.methane],
     drawn |-> 1,
     scheduled |-> 2]

\* render(): the meshes' visible flags, the draws issued, the callbacks
\* scheduled
render(pm, mm, ly) ==
    [planeMesh |-> [pm EXCEPT !.visible = ly.earth],
     methaneMesh |-> [mm EXCEPT !.visible = ly.methane],
     drawn |-> 1,
     scheduled |-> 1]

----------------------------------------------------------------------------
(* The program *)

GeoIdle ==
    /\ gpc = "off"
    /\ pixel = <<0, 0>>
    /\ roundToInt = FALSE
    /\ geo = NoPoint
    /\ back = NoPoint

\* The module is evaluated: device holds the window's values of that moment.
ProgInit ==
    /\ window \in Windows
    /\ device = ReadDevice(window)
    /\ pc = "module"
    /\ camera = NoCamera
    /\ renderer = NoRenderer
    /\ orig = "canvas"
    /\ layers = DefaultLayers
    /\ scale = DefaultScale
    /\ planeMesh = NoMesh
    /\ methaneMesh = NoMesh
    /\ methaneTexture = NoTexture
    /\ synths = 0
    /\ load = "idle"
    /\ loadError = "none"
    /\ peerLoad = "idle"
    /\ raf = 0
    /\ frames = 0
    /\ listening = FALSE
    /\ inputs = 0
    /\ last = "module"

Init ==
    /\ image = NoRaster
    /\ pixelToGPS = NoMatrix
    /\ gpsToPixel = NoMatrix
    /\ GeoIdle
    /\ ProgInit

\* The window is resized, zoomed or moved to another display.
WindowChange ==
    /\ pc \in {"module", "running"}
    /\ inputs < MaxInputs
    /\ \E w \in Windows \ {window} : window' = w
    /\ inputs' = inputs + 1
    /\ last' = "window"
    /\ UNCHANGED <<geoVars, synths, peerLoad, dataVars, pc, device, camera,
                   renderer, orig, sceneVars, load, loadError, loopVars>>

\* constructor(canvas), up to the offscreen draw of generateTexture
Construct ==
    /\ pc = "module"
    /\ camera' = NewCamera(device)
    /\ renderer' = [NewRenderer(device) EXCEPT !.target = "offscreen"]
    /\ orig' = NewRenderer(device).target
    /\ load' = "fromUrl"
    /\ scale' = DefaultScale
    /\ layers' = DefaultLayers
    /\ planeMesh' = NewMesh
    /\ synths' = synths + 1
    /\ pc' = "synth"
    /\ last' = "constructor"
    /\ UNCHANGED <<geoVars, peerLoad, dataVars, window, device, methaneMesh,
                   methaneTexture, loadError, loopVars, inputs>>

\* generateTexture: the offscreen draw returns; the rest of setGeometry,
\* the first render() and setResize()
OffscreenDrawReturns ==
    /\ pc = "synth"
    /\ renderer' = [renderer EXCEPT !.target = orig]
    /\ methaneTexture' = <<resolution, resolution \div 2>>
    /\ LET r == render(planeMesh, NewMesh, layers)
       IN  /\ planeMesh' = r.planeMesh
           /\ methaneMesh' = r.methaneMesh
           /\ frames' = frames + r.drawn
           /\ raf' = raf + r.scheduled
    /\ listening' = TRUE
    /\ pc' = "running"
    /\ last' = "constructor"
    /\ UNCHANGED <<geoVars, synths, peerLoad, dataVars, window, device,
                   camera, orig, layers, scale, load, loadError, inputs>>

\* generateTexture: the offscreen draw raises; the constructor ends with it
OffscreenDrawThrows ==
    /\ pc = "synth"
    /\ pc' = "threw"
    /\ last' = "constructor"
    /\ UNCHANGED <<geoVars, synths, peerLoad, dataVars, viewVars, sceneVars,
                   load, loadError, loopVars, inputs>>

\* render() reading the decoded image: while there is none it raises before
\* the draw, and schedules nothing.
RenderTick_ReadsImage ==
    /\ pc = "running"
    /\ raf > 0
    /\ frames < MaxFrames
    /\ IF load = "fulfilled"
       THEN LET r == render(planeMesh, methaneMesh, layers)
            IN  /\ planeMesh' = r.planeMesh
                /\ methaneMesh' = r.methaneMesh
                /\ frames' = frames + r.drawn
                /\ raf' = (raf - 1) + r.scheduled
       ELSE /\ raf' = raf - 1
            /\ UNCHANGED <<planeMesh, methaneMesh, frames>>
    /\ last' = "render"
    /\ UNCHANGED <<geoVars, synths, peerLoad, dataVars, pc, viewVars, layers,
                   scale, methaneTexture, load, loadError, listening, inputs>>

\* A pending animation-frame callback runs render().
RenderTick ==
    /\ pc = "running"
    /\ raf > 0
    /\ frames < MaxFrames
    /\ LET r == render(planeMesh, methaneMesh, layers)
       IN  /\ planeMesh' = r.planeMesh
           /\ methaneMesh' = r.methaneMesh
           /\ frames' = frames + r.drawn
           /\ raf' = (raf - 1) + r.scheduled
    /\ last' = "render"
    /\ UNCHANGED <<geoVars, synths, peerLoad, dataVars, pc, viewVars, layers,
                   scale, methaneTexture, load, loadError, listening, inputs>>

\* onResize() synthesizing the overlay texture anew, at the viewport's size.
OnResize_Resynthesizes ==
    /\ pc = "running"
    /\ listening
    /\ LET r == onResize(window, device, camera, renderer)
       IN  /\ device' = r.device
           /\ camera' = r.camera
           /\ renderer' = r.renderer
           /\ methaneTexture' = <<r.renderer.width, r.renderer.height>>
    /\ synths' = synths + 1
    /\ last' = "onResize"
    /\ UNCHANGED <<geoVars, peerLoad, dataVars, pc, window, orig, layers,
                   scale, planeMesh, methaneMesh, load, loadError, loopVars,
                   inputs>>

\* The window's resize event runs onResize().
OnResize ==
    /\ pc = "running"
    /\ listening
    /\ LET r == onResize(window, device, camera, renderer)
       IN  /\ device' = r.device
           /\ camera' = r.camera
           /\ renderer' = r.renderer
    /\ last' = "onResize"
    /\ UNCHANGED <<geoVars, synths, peerLoad, dataVars, pc, window, orig,
                   sceneVars, load, loadError, loopVars, inputs>>

\* A Layer checkbox of the control panel is clicked.
GuiToggle ==
    /\ pc = "running"
    /\ inputs < MaxInputs
    /\ \E n \in LayerNames : layers' = [layers EXCEPT ![n] = ~layers[n]]
    /\ inputs' = inputs + 1
    /\ last' = "layer"
    /\ UNCHANGED <<geoVars, synths, peerLoad, dataVars, pc, viewVars, scale,
                   planeMesh, methaneMesh, methaneTexture, load, loadError,
                   loopVars>>

\* A value is entered into a Scale controller of the control panel.
GuiSetScale ==
    /\ pc = "running"
    /\ inputs < MaxInputs
    /\ \E a \in Axes, v \in ScaleInputs :
          scale' = [scale EXCEPT ![a] = GuiSetValue(v, scaleMin, scaleMax)]
    /\ inputs' = inputs + 1
    /\ last' = "scale"
    /\ UNCHANGED <<geoVars, synths, peerLoad, dataVars, pc, viewVars, layers,
                   planeMesh, methaneMesh, methaneTexture, load, loadError,
                   loopVars>>

\* loadMethaneAssets: fromUrl resolves; getImage() is awaited
LoadFetched ==
    /\ pc \in {"running", "threw"}
    /\ load = "fromUrl"
    /\ load' = "getImage"
    /\ last' = "load"
    /\ UNCHANGED <<geoVars, synths, peerLoad, dataVars, pc, viewVars,
                   sceneVars, loadError, loopVars, inputs>>

\* loadMethaneAssets: fromUrl or getImage rejects; so does the promise
LoadFails ==
    /\ pc \in {"running", "threw"}
    /\ load \in {"fromUrl", "getImage"}
    /\ load' = "rejected"
    /\ loadError' = load
    /\ last' = "load"
    /\ UNCHANGED <<geoVars, synths, peerLoad, dataVars, pc, viewVars,
                   sceneVars, loopVars, inputs>>

\* loadMethaneAssets: getImage resolves with the decoded image; the tags are
\* destructured, the coefficients built, the bounding box read
LoadExtract ==
    /\ pc \in {"running", "threw"}
    /\ load = "getImage"
    /\ \E img \in ProgRasters :
          /\ image' = img
          /\ IF ~img.ModelPixelScale.present \/ ~img.ModelTiepoint.present
             THEN /\ load' = "rejected"
                  /\ loadError' = "TypeError"
                  /\ UNCHANGED <<pixelToGPS, gpsToPixel>>
             ELSE /\ pixelToGPS' = BuildPixelToGPS(img.ModelPixelScale.v,
                                                   img.ModelTiepoint.v)
                  /\ gpsToPixel' = BuildGpsToPixel(img.ModelPixelScale.v,
                                                   img.ModelTiepoint.v)
                  \* image.getBoundingBox() returns, or raises
                  /\ \/ load' = "fulfilled" /\ UNCHANGED loadError
                     \/ load' = "rejected" /\ loadError' = "getBoundingBox"
    /\ last' = "load"
    /\ UNCHANGED <<geoVars, synths, peerLoad, pc, viewVars, sceneVars,
                   loopVars, inputs>>

\* new Three(canvas) is run a second time: that constructor's call of
\* loadMethaneAssets() starts a fromUrl of the same URL.  The second
\* instance's own camera, renderer, meshes and loop are not represented.
PeerConstruct ==
    /\ pc \in {"running", "threw"}
    /\ peerLoad = "idle"
    /\ inputs < MaxInputs
    /\ peerLoad' = "fromUrl"
    /\ inputs' = inputs + 1
    /\ last' = "peer"
    /\ UNCHANGED <<geoVars, synths, dataVars, pc, viewVars, sceneVars, load,
                   loadError, loopVars>>

\* The second instance's loadMethaneAssets: fromUrl resolves; getImage() is
\* awaited
PeerLoadFetched ==
    /\ peerLoad = "fromUrl"
    /\ peerLoad' = "getImage"
    /\ last' = "peer"
    /\ UNCHANGED <<geoVars, synths, dataVars, pc, viewVars, sceneVars, load,
                   loadError, loopVars, inputs>>

\* The second instance's loadMethaneAssets: an await rejects, or getImage
\* resolves and the rest of the function returns or raises
PeerLoadSettles ==
    /\ \/ peerLoad \in {"fromUrl", "getImage"} /\ peerLoad' = "rejected"
       \/ peerLoad = "getImage" /\ peerLoad' = "fulfilled"
    /\ last' = "peer"
    /\ UNCHANGED <<geoVars, synths, dataVars, pc, viewVars, sceneVars, load,
                   loadError, loopVars, inputs>>

Next ==
    \/ WindowChange
    \/ Construct
    \/ OffscreenDrawReturns
    \/ OffscreenDrawThrows
    \/ RenderTick
    \/ OnResize
    \/ GuiToggle
    \/ GuiSetScale
    \/ LoadFetched
    \/ LoadFails
    \/ LoadExtract
    \/ PeerConstruct
    \/ PeerLoadFetched
    \/ PeerLoadSettles

Spec == Init /\ [][Next]_vars

----------------------------------------------------------------------------
(* The coordinate-transform exercise: derive the coefficients from a raster *)
(* as loadMethaneAssets does, map a pixel forward, map the result back.     *)

GeoInit ==
    /\ image \in GeoRasters
    /\ pixel \in PixelsOf(image)
    /\ roundToInt \in BOOLEAN
    /\ pixelToGPS = NoMatrix
    /\ gpsToPixel = NoMatrix
    /\ gpc = "input"
    /\ geo = NoPoint
    /\ back = NoPoint
    /\ ProgInit
    /\ window = Win(Num(800), Num(600), Num(1))

GeoDerive ==
    /\ gpc = "input"
    /\ pixelToGPS' = BuildPixelToGPS(image.ModelPixelScale.v,
                                     image.ModelTiepoint.v)
    /\ gpsToPixel' = BuildGpsToPixel(image.ModelPixelScale.v,
                                     image.ModelTiepoint.v)
    /\ gpc' = "derived"
    /\ UNCHANGED <<image, pixel, roundToInt, geo, back, progVars>>

GeoForward ==
    /\ gpc = "derived"
    /\ geo' = transform(Num(pixel[1]), Num(pixel[2]), pixelToGPS, roundToInt)
    /\ gpc' = "forward"
    /\ UNCHANGED <<dataVars, pixel, roundToInt, back, progVars>>

GeoInverse ==
    /\ gpc = "forward"
    /\ back' = transform(geo[1], geo[2], gpsToPixel, roundToInt)
    /\ gpc' = "inverse"
    /\ UNCHANGED <<dataVars, pixel, roundToInt, geo, progVars>>

GeoNext == GeoDerive \/ GeoForward \/ GeoInverse

SpecGeo == GeoInit /\ [][GeoNext]_vars

----------------------------------------------------------------------------
(* Properties of the coordinate transform, checked under SpecGeo *)

SrcSx == At(image.ModelPixelScale.v, 1)
SrcSy == At(image.ModelPixelScale.v, 2)
SrcGx == At(image.ModelTiepoint.v, 4)
SrcGy == At(image.ModelTiepoint.v, 5)

ForwardFormula ==
    /\ StrictEq(geo[1], Add(SrcGx, Mul(SrcSx, Num(pixel[1]))))
    /\ StrictEq(geo[2], Add(SrcGy, Neg(Mul(SrcSy, Num(pixel[2])))))
    /\ (image = ExampleRaster /\ pixel = <<0, 0>>)
          => geo = <<Num(-100), Num(40)>>
    /\ (image = ExampleRaster /\ pixel = <<1000, 1000>>)
          => geo = <<Num(-90), Num(30)>>

\* The latitude of the next pixel row is strictly smaller.
LatitudeDecreases ==
    Less(transform(Num(pixel[1]), Num(pixel[2] + 1), pixelToGPS, FALSE)[2],
         geo[2])

\* C2 as amended: forward(px, py) = (gx + sx*px, gy - sy*py), the example's
\* values included, and latitude strictly decreases as py increases when the
\* source pixel scale sy is positive.
C2_Forward ==
    (gpc \in {"forward", "inverse"} /\ ~roundToInt)
        => /\ ForwardFormula
           /\ Less(PosZero, SrcSy) => LatitudeDecreases

C2_Witness ==
    /\ gpc = "forward"
    /\ ~roundToInt
    /\ image = ExampleRaster
    /\ pixel = <<1000, 1000>>
    /\ geo = <<Num(-90), Num(30)>>

\* C2 as stated: forward(px, py) = (gx + sx*px, gy - sy*py) and, for every
\* raster, latitude strictly decreases as py increases.
C2_Original ==
    (gpc \in {"forward", "inverse"} /\ ~roundToInt)
        => ForwardFormula /\ LatitudeDecreases

----------------------------------------------------------------------------
(* Properties of the program, checked under Spec *)

\* C3: just after a render tick each mesh's visible flag is the value of its
\* layer entry; the tick leaves alone a mesh whose layer entry was not
\* toggled; a toggle changes one layer entry and no mesh.
C3_VisibilitySync ==
    [][ /\ frames' # frames =>
              /\ planeMesh'.visible = layers'.earth
              /\ methaneMesh'.visible = layers'.methane
              /\ (planeMesh.made /\ planeMesh.visible = layers'.earth)
                    => planeMesh' = planeMesh
              /\ (methaneMesh.made /\ methaneMesh.visible = layers'.methane)
                    => methaneMesh' = methaneMesh
        /\ layers' # layers =>
              /\ Cardinality({n \in LayerNames : layers'[n] # layers[n]}) = 1
              /\ planeMesh' = planeMesh
              /\ methaneMesh' = methaneMesh
      ]_vars

C3_Witness ==
    /\ pc = "running"
    /\ last = "render"
    /\ ~layers.methane
    /\ ~methaneMesh.visible
    /\ ~layers.cow
    /\ layers.earth
    /\ planeMesh.visible

\* C4: once the constructor has returned exactly one frame callback is
\* pending in every state; a callback's run issues exactly one draw of the
\* main scene and leaves exactly one callback pending; nothing else draws or
\* schedules.
C4_RenderLoop ==
    /\ [](pc = "running" => raf = 1 /\ frames >= 1)
    /\ [][ pc = "running" =>
              /\ raf' = raf
              /\ IF last' = "render"
                 THEN frames' = frames + 1
                 ELSE frames' = frames
         ]_vars

C4_Witness ==
    /\ pc = "running"
    /\ last = "render"
    /\ frames = MaxFrames
    /\ raf = 1

\* C5: whatever the state of the asynchronous load (pending, fulfilled, or
\* rejected at the fetch, at getImage or at the extraction of the metadata),
\* the running loop has its next tick scheduled and able to draw, and no
\* step of the load after its start touches the loop or the scene.
C5_LoadNeverHaltsLoop ==
    /\ [](pc = "running" =>
              /\ raf >= 1
              /\ planeMesh.made /\ methaneMesh.made
              /\ frames < MaxFrames => ENABLED RenderTick)
    /\ [][ (load # "idle" /\ load' # load) =>
              /\ pc' = pc
              /\ raf' = raf
              /\ frames' = frames
              /\ listening' = listening
              /\ planeMesh' = planeMesh
              /\ methaneMesh' = methaneMesh
              /\ renderer' = renderer
         ]_vars

C5_Witness ==
    /\ pc = "running"
    /\ load = "rejected"
    /\ loadError = "fromUrl"
    /\ last = "render"
    /\ frames >= 2
    /\ raf = 1

\* C6: the pixel ratio applied to the renderer, by the constructor and by
\* every resize, is min(device.pixelRatio, 2), and never exceeds 2.
C6_PixelRatioClamp ==
    pc # "module" =>
        /\ renderer.pixelRatio = MathMin(device.pixelRatio, Num(2))
        /\ ~Less(Num(2), renderer.pixelRatio)

C6_Witness ==
    /\ last = "onResize"
    /\ device.pixelRatio = Num(3)
    /\ renderer.pixelRatio = Num(2)
    /\ renderer.width = Num(800)

\* C7: onResize run again, the window unchanged, leaves device, camera and
\* renderer as its first run left them.
C7_ResizeIdempotent ==
    [][ (last = "onResize" /\ last' = "onResize" /\ window' = window) =>
            /\ device' = device
            /\ camera' = camera
            /\ renderer' = renderer
      ]_vars

C7_Witness ==
    /\ last = "onResize"
    /\ inputs >= 1
    /\ device.width = window.innerWidth
    /\ renderer.width = window.innerWidth
    /\ camera.projAspect = Div(window.innerWidth, window.innerHeight)
    /\ camera.projAspect # Div(Num(800), Num(600))

\* C8: just after a render tick the overlay mesh's scale is the (clamped)
\* values of scaleX, scaleY and scaleZ.
C8_ScaleApplied ==
    (pc = "running" /\ last = "render") =>
        methaneMesh.scale = <<scale.x, scale.y, scale.z>>

\* C9: once generateTexture has finished, by returning or by raising, the
\* renderer's bound render target is the one bound before the call.
C9_TargetRestored ==
    pc \in {"running", "threw"} => renderer.target = orig

\* The decoded image's georeferencing tags are absent or of the wrong length.
BadTags(img) ==
    \/ ~img.ModelPixelScale.present
    \/ ~img.ModelTiepoint.present
    \/ Len(img.ModelPixelScale.v) # 3
    \/ Len(img.ModelTiepoint.v) # 6

\* C10: when a tag of the decoded image is absent or of the wrong length,
\* loadMethaneAssets ends rejected at the extraction of the metadata and has
\* built no coefficients.
C10_InvalidMetadata ==
    (load \in {"fulfilled", "rejected"} /\ image # NoRaster /\ BadTags(image)) =>
        /\ load = "rejected"
        /\ loadError = "TypeError"
        /\ pixelToGPS = NoMatrix
        /\ gpsToPixel = NoMatrix

\* The ingestion states of loadMethaneAssets' promise.
Unloaded == {"idle"}
Loading == {"fromUrl", "getImage"}
Ready == {"fulfilled"}
Failed == {"rejected"}

\* The ingestion state moves only Unloaded -> Loading -> Ready or Failed, and
\* nothing leaves Ready or Failed: no retry is started.
IngestionOrder ==
    [][ load' # load =>
            \/ load \in Unloaded /\ load' \in Loading
            \/ load \in Loading /\ load' \in Loading \cup Ready \cup Failed
      ]_vars

\* C11: the ingestion state moves only Unloaded -> Loading -> Ready or Failed
\* with no retry, and in every state the overlay mesh is in the scene and
\* visible only if the ingestion state is Ready.
C11_IngestionGatesOverlay ==
    /\ IngestionOrder
    /\ []((methaneMesh.made /\ methaneMesh.visible) => load \in Ready)

\* C12: at any moment at most one fetch or decode of the raster URL is
\* pending: while the first instance's loadMethaneAssets is at fromUrl or
\* getImage, a second instance's is not.
C12_SingleInFlight ==
    ~(load \in Loading /\ peerLoad \in Loading)

\* C13: just after onResize the viewport state is the window's current
\* innerWidth, innerHeight and devicePixelRatio: device holds them, the camera
\* aspect and the renderer size are computed from them, and the applied pixel
\* ratio is min(devicePixelRatio, 2).
C13_ResizeReadsWindow ==
    last = "onResize" =>
        /\ device = ReadDevice(window)
        /\ camera.aspect = Div(window.innerWidth, window.innerHeight)
        /\ camera.projAspect = camera.aspect
        /\ renderer.width = window.innerWidth
        /\ renderer.height = window.innerHeight
        /\ renderer.pixelRatio = MathMin(window.devicePixelRatio, Num(2))

\* The part of C13 about the size: just after onResize, width, height and
\* aspect are the window's current ones.
ResizeReadsSize ==
    last = "onResize" =>
        /\ device.width = window.innerWidth
        /\ device.height = window.innerHeight
        /\ camera.aspect = Div(window.innerWidth, window.innerHeight)
        /\ camera.projAspect = camera.aspect
        /\ renderer.width = window.innerWidth
        /\ renderer.height = window.innerHeight

\* The decoded image has well-formed tags whose pixel scale has sx = 0 or
\* sy = 0.
DegenerateScale(img) ==
    /\ ~BadTags(img)
    /\ \/ IsZero(At(img.ModelPixelScale.v, 1))
       \/ IsZero(At(img.ModelPixelScale.v, 2))

\* C14: when the pixel scale has sx = 0 or sy = 0, loadMethaneAssets ends
\* rejected with a DegenerateTransform error, and no coefficient it built is
\* Infinity or NaN.
C14_DegenerateTransform ==
    (load \in {"fulfilled", "rejected"} /\ DegenerateScale(image)) =>
        /\ load = "rejected"
        /\ loadError = "DegenerateTransform"
        /\ \A i \in DOMAIN gpsToPixel : IsFinite(gpsToPixel[i])
        /\ \A i \in DOMAIN pixelToGPS : IsFinite(pixelToGPS[i])

\* C15: the overlay texture is synthesized exactly once, during construction:
\* generateTexture issues its offscreen draw once; once the constructor has
\* returned the texture is 2000 x 1000 whatever the viewport; and no render
\* tick, resize, window change, layer or scale change or load step runs
\* generateTexture or replaces the texture.
C15_SynthesisOneShot ==
    /\ [](synths <= 1)
    /\ [](pc = "module" => synths = 0 /\ methaneTexture = NoTexture)
    /\ [](pc = "running" => synths = 1 /\ methaneTexture = <<2000, 1000>>)
    /\ [][ last' # "constructor" =>
              /\ synths' = synths
              /\ methaneTexture' = methaneTexture
         ]_vars

C15_Witness ==
    /\ pc = "running"
    /\ last = "onResize"
    /\ frames >= 2
    /\ layers # DefaultLayers
    /\ renderer.width = Num(1200)
    /\ device.width # Num(800)
    /\ synths = 1
    /\ methaneTexture = <<2000, 1000>>

====
